---- MODULE Spec2Model ----
(***************************************************************************)
(* Model of system-info/Src/main.rs: a desktop widget that scans the       *)
(* graphics adapters once at startup and then refreshes CPU / RAM          *)
(* readings into three display fields, once per timer tick (a tokio task   *)
(* on a worker thread) and once per manual trigger (a callback on the UI   *)
(* thread).  Both paths share one Mutex<System> and hold only a weak       *)
(* handle to the window.                                                   *)
(*                                                                         *)
(* Abstractions.  f32 per-core usages are exact numbers counted in         *)
(* hundredths of a percent, so the mean is an exact quotient and the       *)
(* "{:.2}" format is a rounding of it (binary rounding error of f32 is not *)
(* modelled; 0.0/0.0 is NaN as in IEEE 754).  A formatted string is the    *)
(* sequence of its pieces, numbers rendered in decimal.  Time is counted   *)
(* in timer periods.  Weak::upgrade resolves exactly when a strong         *)
(* reference to the window exists.                                         *)
(***************************************************************************)
EXTENDS Integers, Sequences, FiniteSets, TLC

\* ----------------------------------------------------------------- bounds
MaxNow == 2
MaxTriggers == 2
MaxAdapters == 2

\* ------------------------------------------------------ program constants
KiB == 1024
Fallback == <<"No GPU adapters found">>
ClockLine == "Clock Speed: N/A (requires vendor-specific APIs)"
InitText == <<>>

\* ------------------------------------------------------------- the inputs
\* Adapter descriptors the graphics instance may enumerate: the same device
\* seen through two backends, and a second device.
Descriptors ==
    { [name |-> "GpuA", backend |-> "Vulkan", device |-> 1, max_binding |-> 134217728],
      [name |-> "GpuA", backend |-> "Dx12",   device |-> 1, max_binding |-> 2147483647],
      [name |-> "GpuB", backend |-> "Gl",     device |-> 2, max_binding |-> 1048575] }

AdapterSeqs == UNION { [1..n -> Descriptors] : n \in 0..MaxAdapters }

\* Per-core usages, in hundredths of a percent.
CpuSamples == { <<>>, <<1000, 2000, 3000>>, <<100, 101, 101>> }

\* Memory counters in bytes (u64 in the code; kept below 2^31 here, the
\* divisions cannot overflow); used + free need not be total.
MemSamples ==
    { [total |-> 2147483647, used |-> 1073741824, free |-> 1073741824],
      [total |-> 2097151, used |-> 1048575, free |-> 1048577] }

Readings == { [cpus |-> c, mem |-> m] : c \in CpuSamples, m \in MemSamples }

Procs == {"timer", "manual"}

VARIABLES
    mainpc,        \* position of main
    result,        \* what main returned: "none", "ok", "err"
    adapters,      \* get_gpu_info: the enumerated adapter list
    gpu_info,      \* main: the string get_gpu_info returned (captured by both closures)
    strong,        \* holders of a strong reference to the AppWindow
    lock,          \* the Mutex<System>: "free" or the holder
    system,        \* the System inside the mutex: last readings, and which refresh made them
    pc,            \* position of the timer task and of the manual handler
    snap,          \* per path: the readings its own refresh_all produced
    ui,            \* the three display fields of the AppWindow
    src,           \* per display field: the refresh its text was computed from
    now,           \* the clock, in periods
    nextDeadline,  \* the interval's next deadline, in periods
    ticks,         \* completed interval.tick() calls
    triggers,      \* manual triggers so far
    refreshes,     \* refresh_all calls so far
    poisoned       \* the Mutex<System> is poisoned: a holder panicked

vars == <<mainpc, result, adapters, gpu_info, strong, lock, system, pc, snap, ui,
          src, now, nextDeadline, ticks, triggers, refreshes, poisoned>>

NoSystem == [cpus |-> <<>>, mem |-> [total |-> 0, used |-> 0, free |-> 0], gen |-> 0]
Unset == <<"unset">>

\* ------------------------------------------------------- get_gpu_info
\* limits.max_storage_buffer_binding_size / (1024 * 1024)
VramMb(d) == d.max_binding \div (KiB * KiB)

\* The three pushed lines; the last "\n" is what trim_end removes.
AdapterLines(d) ==
    << "GPU: ", d.name, " (", d.backend, ")", "\n",
       "VRAM: ", ToString(VramMb(d)), " MB", "\n",
       ClockLine, "\n" >>

TrimEnd(s) ==
    IF Len(s) > 0 /\ s[Len(s)] = "\n" THEN SubSeq(s, 1, Len(s) - 1) ELSE s

\* the loop without its break: every distinct device is pushed
RECURSIVE ScanAll(_, _, _)
ScanAll(list, i, seen) ==
    IF i > Len(list) THEN <<>>
    ELSE IF list[i].device \notin seen
         THEN AdapterLines(list[i]) \o ScanAll(list, i + 1, seen \cup {list[i].device})
         ELSE ScanAll(list, i + 1, seen)

\* The for loop: skip adapters whose device is in seen_devices, push the
\* first one that is not and break.
RECURSIVE ScanFrom(_, _, _)
ScanFrom(list, i, seen) ==
    IF i > Len(list) THEN <<>>
    ELSE IF list[i].device \notin seen THEN AdapterLines(list[i])
    ELSE ScanFrom(list, i + 1, seen)

\* the empty check forgotten
GetGpuInfoUnchecked(list) == TrimEnd(ScanFrom(list, 1, {}))

GetGpuInfo(list) ==
    IF Len(list) = 0 THEN Fallback ELSE TrimEnd(ScanFrom(list, 1, {}))

\* ------------------------------------------------- update_system_info
RECURSIVE SumUsage(_)
SumUsage(cpus) ==
    IF Len(cpus) = 0 THEN 0 ELSE Head(cpus) + SumUsage(Tail(cpus))

\* sum::<f32>() / cpus.len() as f32 : the exact quotient, or NaN for 0.0 / 0.0
CpuAverage(cpus) ==
    IF Len(cpus) = 0
    THEN [nan |-> TRUE, num |-> 0, den |-> 1]
    ELSE [nan |-> FALSE, num |-> SumUsage(cpus), den |-> Len(cpus)]

TwoDigits(n) == IF n < 10 THEN <<"0", ToString(n)>> ELSE <<ToString(n)>>

\* "{:.2}": the quotient rounded to the nearest hundredth (ties to even),
\* printed with two decimals; NaN prints as "NaN"
Fixed2(avg) ==
    IF avg.nan THEN <<"NaN">>
    ELSE LET q == avg.num \div avg.den
             r == avg.num % avg.den
             h == IF 2 * r < avg.den THEN q
                  ELSE IF 2 * r > avg.den THEN q + 1
                  ELSE IF q % 2 = 0 THEN q ELSE q + 1
         IN  <<ToString(h \div 100), ".">> \o TwoDigits(h % 100)

FormatCpu(cpus) == <<"CPU Usage: ">> \o Fixed2(CpuAverage(cpus)) \o <<"%">>

\* one division forgotten
ToMbOnce(bytes) == bytes \div KiB

\* system.total_memory() / 1024 / 1024
ToMb(bytes) == (bytes \div KiB) \div KiB

FormatRam(mem) ==
    << "Total RAM: ", ToString(ToMb(mem.total)), " MB, Used: ", ToString(ToMb(mem.used)),
       " MB, Free: ", ToString(ToMb(mem.free)), " MB" >>

\* --------------------------------------------------------------- Init
Init ==
    /\ mainpc = "new_window"
    /\ result = "none"
    /\ adapters = <<>>
    /\ gpu_info = Unset
    /\ strong = {}
    /\ lock = "free"
    /\ system = NoSystem
    /\ pc = [p \in Procs |-> IF p = "timer" THEN "unspawned" ELSE "idle"]
    /\ snap = [p \in Procs |-> NoSystem]
    /\ ui = [cpu_usage |-> InitText, ram_info |-> InitText, gpu_info |-> InitText]
    /\ src = [cpu_usage |-> 0, ram_info |-> 0]
    /\ now = 0
    /\ nextDeadline = 0
    /\ ticks = 0
    /\ triggers = 0
    /\ refreshes = 0
    /\ poisoned = FALSE

\* variant: the error of AppWindow::new() is dropped and main goes on
MainNewWindowOrContinue ==
    /\ mainpc = "new_window"
    /\ \E ok \in BOOLEAN :
         /\ strong' = IF ok THEN {"main"} ELSE strong
         /\ mainpc' = "new_system"
         /\ result' = result
    /\ UNCHANGED <<poisoned, adapters, gpu_info, lock, system, pc, snap, ui, src, now,
                   nextDeadline, ticks, triggers, refreshes>>

\* --------------------------------------------------------------- main
\* let ui = AppWindow::new()?;
MainNewWindow ==
    /\ mainpc = "new_window"
    /\ \E ok \in BOOLEAN :
         IF ok
         THEN /\ strong' = {"main"}
              /\ mainpc' = "new_system"
              /\ result' = result
         ELSE /\ strong' = strong
              /\ mainpc' = "exited"
              /\ result' = "err"
    /\ UNCHANGED <<poisoned, adapters, gpu_info, lock, system, pc, snap, ui, src, now,
                   nextDeadline, ticks, triggers, refreshes>>

\* let system = Arc::new(Mutex::new(System::new_all()));
MainNewSystem ==
    /\ mainpc = "new_system"
    /\ \E r \in Readings :
         system' = [cpus |-> r.cpus, mem |-> r.mem, gen |-> 0]
    /\ mainpc' = "enumerate"
    /\ UNCHANGED <<poisoned, result, adapters, gpu_info, strong, lock, pc, snap, ui, src, now,
                   nextDeadline, ticks, triggers, refreshes>>

\* get_gpu_info: let adapters = instance.enumerate_adapters(Backends::all());
MainEnumerate ==
    /\ mainpc = "enumerate"
    /\ adapters' \in AdapterSeqs
    /\ mainpc' = "reduce"
    /\ UNCHANGED <<poisoned, result, gpu_info, strong, lock, system, pc, snap, ui, src, now,
                   nextDeadline, ticks, triggers, refreshes>>

\* get_gpu_info: the rest of the body, up to the value it returns
MainReduce ==
    /\ mainpc = "reduce"
    /\ gpu_info' = GetGpuInfo(adapters)
    /\ mainpc' = "spawn"
    /\ UNCHANGED <<poisoned, result, adapters, strong, lock, system, pc, snap, ui, src, now,
                   nextDeadline, ticks, triggers, refreshes>>

\* get_gpu_info has returned (its adapter list is gone); tokio::spawn of the
\* timer task, whose interval has its first deadline at once
MainSpawn ==
    /\ mainpc = "spawn"
    /\ adapters' = <<>>
    /\ pc' = [pc EXCEPT !["timer"] = "wait"]
    /\ nextDeadline' = now
    /\ mainpc' = "register"
    /\ UNCHANGED <<poisoned, result, gpu_info, strong, lock, system, snap, ui, src, now,
                   ticks, triggers, refreshes>>

\* ui.on_request_increase_value(...)
MainRegister ==
    /\ mainpc = "register"
    /\ mainpc' = "run"
    /\ UNCHANGED <<poisoned, result, adapters, gpu_info, strong, lock, system, pc, snap, ui, src,
                   now, nextDeadline, ticks, triggers, refreshes>>

\* ui.run()? returns: the event loop is over (the handler runs inside it)
MainRunReturns ==
    /\ mainpc = "run"
    /\ pc["manual"] = "idle"
    /\ \E r \in {"ok", "err"} : result' = r
    /\ mainpc' = "drop"
    /\ UNCHANGED <<poisoned, adapters, gpu_info, strong, lock, system, pc, snap, ui, src, now,
                   nextDeadline, ticks, triggers, refreshes>>

\* end of main's body: ui (the strong reference of main) is dropped
MainDrop ==
    /\ mainpc = "drop"
    /\ strong' = strong \ {"main"}
    /\ mainpc' = "shutdown"
    /\ UNCHANGED <<poisoned, result, adapters, gpu_info, lock, system, pc, snap, ui, src, now,
                   nextDeadline, ticks, triggers, refreshes>>

\* #[tokio::main]: the runtime is dropped once main's future is done; the
\* timer task is cancelled at its await point (unless it has ended already)
MainExit ==
    /\ mainpc = "shutdown"
    /\ pc["timer"] \in {"wait", "panicked"}
    /\ pc' = [pc EXCEPT !["timer"] = IF @ = "wait" THEN "cancelled" ELSE @]
    /\ mainpc' = "exited"
    /\ UNCHANGED <<poisoned, result, adapters, gpu_info, strong, lock, system, snap, ui, src, now,
                   nextDeadline, ticks, triggers, refreshes>>

\* ------------------------------------------------------------ the clock
Clock ==
    /\ pc["timer"] # "unspawned"
    /\ mainpc # "exited"
    /\ now < MaxNow
    /\ now' = now + 1
    /\ UNCHANGED <<poisoned, mainpc, result, adapters, gpu_info, strong, lock, system, pc, snap,
                   ui, src, nextDeadline, ticks, triggers, refreshes>>

\* ------------------------------------------------------ the two callers
\* MissedTickBehavior::Skip: the next deadline is the first one after `t`
SkipTimeout(timeout, t) == t + 1

\* time::interval with the default MissedTickBehavior (Burst): the deadline
\* after `timeout` is one period later, whatever the time `t` is now
NextTimeout(timeout, t) == timeout + 1

\* interval.tick().await completes: the deadline has been reached
TimerTick ==
    /\ pc["timer"] = "wait"
    /\ nextDeadline <= now
    /\ pc' = [pc EXCEPT !["timer"] = "upgrade"]
    /\ nextDeadline' = NextTimeout(nextDeadline, now)
    /\ ticks' = ticks + 1
    /\ UNCHANGED <<poisoned, mainpc, result, adapters, gpu_info, strong, lock, system, snap, ui,
                   src, now, triggers, refreshes>>

\* the UI event loop invokes the request_increase_value callback
Trigger ==
    /\ mainpc = "run"
    /\ pc["manual"] = "idle"
    /\ triggers < MaxTriggers
    /\ pc' = [pc EXCEPT !["manual"] = "upgrade"]
    /\ triggers' = triggers + 1
    /\ UNCHANGED <<poisoned, mainpc, result, adapters, gpu_info, strong, lock, system, snap, ui,
                   src, now, nextDeadline, ticks, refreshes>>

\* variant: a caller that starts its body over when it is done
RepeatBody(p) == "upgrade"

\* where a caller is when it is not in its body
Rest(p) == IF p = "timer" THEN "wait" ELSE "idle"

\* a reimplementation that ends the loop once the window is gone
StopWhenGone(p) == IF p = "timer" THEN "stopped" ELSE "idle"

\* a caller that goes on to the mutex without a window
ProceedUnresolved(p) == "lock"

\* upgrade() gave None: the if let has no else, the caller is done
Unresolved(p) == Rest(p)

\* if let Some(ui) = ui_handle.upgrade()
Upgrade(p) ==
    /\ pc[p] = "upgrade"
    /\ IF strong # {}
       THEN /\ strong' = strong \cup {p}
            /\ pc' = [pc EXCEPT ![p] = "lock"]
       ELSE /\ strong' = strong
            /\ pc' = [pc EXCEPT ![p] = Unresolved(p)]
    /\ UNCHANGED <<poisoned, mainpc, result, adapters, gpu_info, lock, system, snap, ui, src, now,
                   nextDeadline, ticks, triggers, refreshes>>

\* a mutex that excludes no one
AlwaysAcquirable(p) == TRUE

\* variant: a mutex that hands itself to the timer task first whenever the
\* timer task is calling lock()
TimerFirst(p) == lock = "free" /\ (p = "manual" => pc["timer"] # "lock")

\* std::sync::Mutex: lock() returns the guard only when no one holds it
Acquirable(p) == lock = "free"

\* try_lock(): a held mutex is an Err, the caller skips
SkipOnContention(p) == "drop_ui"

\* variant: only the timer task gives up on a held mutex
TimerSkips(p) == IF p = "timer" THEN "drop_ui" ELSE "blocked"

\* what lock() does when the mutex is held: the calling thread is parked
Contended(p) == "blocked"

\* lock().unwrap(): a poisoned mutex makes the caller panic
UnwrapPoison(p) == "panicked"

\* lock() on a poisoned mutex is an Err (the guard inside it is dropped at
\* once): the if let Ok does not match, the caller goes to the end of the
\* outer if let
OnPoison(p) == "drop_ui"

\* lock() has the mutex: Ok(guard), or Err when it is poisoned
Locked(p) ==
    IF poisoned
    THEN /\ lock' = lock
         /\ pc' = [pc EXCEPT ![p] = OnPoison(p)]
    ELSE /\ lock' = p
         /\ pc' = [pc EXCEPT ![p] = "refresh"]

\* if let Ok(mut system) = system.lock()
LockCall(p) ==
    /\ pc[p] = "lock"
    /\ IF Acquirable(p)
       THEN Locked(p)
       ELSE /\ lock' = lock
            /\ pc' = [pc EXCEPT ![p] = Contended(p)]
    /\ UNCHANGED <<poisoned, mainpc, result, adapters, gpu_info, strong, system, snap, ui, src,
                   now, nextDeadline, ticks, triggers, refreshes>>

\* the parked thread gets the mutex once it is released
LockWake(p) ==
    /\ pc[p] = "blocked"
    /\ Acquirable(p)
    /\ Locked(p)
    /\ UNCHANGED <<poisoned, mainpc, result, adapters, gpu_info, strong, system, snap, ui, src,
                   now, nextDeadline, ticks, triggers, refreshes>>

\* update_system_info: system.refresh_all();
RefreshAll(p) ==
    /\ pc[p] = "refresh"
    /\ \E r \in Readings :
         /\ system' = [cpus |-> r.cpus, mem |-> r.mem, gen |-> refreshes + 1]
         /\ snap' = [snap EXCEPT ![p] = system']
    /\ refreshes' = refreshes + 1
    /\ pc' = [pc EXCEPT ![p] = "cpu"]
    /\ UNCHANGED <<poisoned, mainpc, result, adapters, gpu_info, strong, lock, ui, src, now,
                   nextDeadline, ticks, triggers>>

\* update_system_info: ui.set_cpu_usage(...)
SetCpuUsage(p) ==
    /\ pc[p] = "cpu"
    /\ ui' = [ui EXCEPT !.cpu_usage = FormatCpu(system.cpus)]
    /\ src' = [src EXCEPT !.cpu_usage = system.gen]
    /\ pc' = [pc EXCEPT ![p] = "ram"]
    /\ UNCHANGED <<poisoned, mainpc, result, adapters, gpu_info, strong, lock, system, snap, now,
                   nextDeadline, ticks, triggers, refreshes>>

\* update_system_info: ui.set_ram_info(...)
SetRamInfo(p) ==
    /\ pc[p] = "ram"
    /\ ui' = [ui EXCEPT !.ram_info = FormatRam(system.mem)]
    /\ src' = [src EXCEPT !.ram_info = system.gen]
    /\ pc' = [pc EXCEPT ![p] = "gpu"]
    /\ UNCHANGED <<poisoned, mainpc, result, adapters, gpu_info, strong, lock, system, snap, now,
                   nextDeadline, ticks, triggers, refreshes>>

\* variant: the summary is computed again at every push, from what the
\* caller still has of the enumeration
SetGpuInfoRescan(p) ==
    /\ pc[p] = "gpu"
    /\ ui' = [ui EXCEPT !.gpu_info = GetGpuInfo(adapters)]
    /\ pc' = [pc EXCEPT ![p] = "unlock"]
    /\ UNCHANGED <<poisoned, mainpc, result, adapters, gpu_info, strong, lock, system, snap, src,
                   now, nextDeadline, ticks, triggers, refreshes>>

\* update_system_info: ui.set_gpu_info(gpu_info.to_string().into());
SetGpuInfo(p) ==
    /\ pc[p] = "gpu"
    /\ ui' = [ui EXCEPT !.gpu_info = gpu_info]
    /\ pc' = [pc EXCEPT ![p] = "unlock"]
    /\ UNCHANGED <<poisoned, mainpc, result, adapters, gpu_info, strong, lock, system, snap, src,
                   now, nextDeadline, ticks, triggers, refreshes>>

\* variant: the holder lets go of the guard only when the other caller is
\* not parked on the mutex
UnlockWhenNoWaiter(p) ==
    /\ pc[p] = "unlock"
    /\ \A q \in Procs \ {p} : pc[q] # "blocked"
    /\ lock' = "free"
    /\ pc' = [pc EXCEPT ![p] = "drop_ui"]
    /\ UNCHANGED <<poisoned, mainpc, result, adapters, gpu_info, strong, system, snap, ui, src,
                   now, nextDeadline, ticks, triggers, refreshes>>

\* variant: the guard outlives the inner if let (it is forgotten, not dropped)
KeepGuard(p) ==
    /\ pc[p] = "unlock"
    /\ lock' = lock
    /\ pc' = [pc EXCEPT ![p] = "drop_ui"]
    /\ UNCHANGED <<poisoned, mainpc, result, adapters, gpu_info, strong, system, snap, ui, src,
                   now, nextDeadline, ticks, triggers, refreshes>>

\* variant: the upgraded AppWindow is kept by the caller after its body
KeepUi(p) ==
    /\ pc[p] = "drop_ui"
    /\ strong' = strong
    /\ pc' = [pc EXCEPT ![p] = Rest(p)]
    /\ UNCHANGED <<poisoned, mainpc, result, adapters, gpu_info, lock, system, snap, ui, src, now,
                   nextDeadline, ticks, triggers, refreshes>>

\* end of the inner if let: the MutexGuard is dropped
Unlock(p) ==
    /\ pc[p] = "unlock"
    /\ lock' = "free"
    /\ pc' = [pc EXCEPT ![p] = "drop_ui"]
    /\ UNCHANGED <<poisoned, mainpc, result, adapters, gpu_info, strong, system, snap, ui, src,
                   now, nextDeadline, ticks, triggers, refreshes>>

\* end of the outer if let: the upgraded AppWindow is dropped
DropUi(p) ==
    /\ pc[p] = "drop_ui"
    /\ strong' = strong \ {p}
    /\ pc' = [pc EXCEPT ![p] = Rest(p)]
    /\ UNCHANGED <<poisoned, mainpc, result, adapters, gpu_info, lock, system, snap, ui, src, now,
                   nextDeadline, ticks, triggers, refreshes>>

\* a panic inside update_system_info unwinds the caller: its guard is dropped
\* while panicking (the mutex is poisoned), then its upgraded AppWindow.  The
\* timer task ends there (tokio catches the panic); a panic of the handler
\* goes on unwinding through ui.run() and main.
Panic(p) ==
    /\ pc[p] \in {"refresh", "cpu", "ram", "gpu"}
    /\ lock = p
    /\ poisoned' = TRUE
    /\ lock' = "free"
    /\ strong' = strong \ {p}
    /\ pc' = [pc EXCEPT ![p] = "panicked"]
    /\ IF p = "manual"
       THEN mainpc' = "drop" /\ result' = "panic"
       ELSE UNCHANGED <<mainpc, result>>
    /\ UNCHANGED <<adapters, gpu_info, system, snap, ui, src, now, nextDeadline,
                   ticks, triggers, refreshes>>

Main ==
    \/ MainNewWindow
    \/ MainNewSystem
    \/ MainEnumerate
    \/ MainReduce
    \/ MainSpawn
    \/ MainRegister
    \/ MainRunReturns
    \/ MainDrop
    \/ MainExit

Body(p) ==
    \/ Upgrade(p)
    \/ LockCall(p)
    \/ LockWake(p)
    \/ RefreshAll(p)
    \/ SetCpuUsage(p)
    \/ SetRamInfo(p)
    \/ SetGpuInfo(p)
    \/ Unlock(p)
    \/ DropUi(p)

Next ==
    \/ Main
    \/ Clock
    \/ TimerTick
    \/ Trigger
    \/ \E p \in Procs : Body(p)
    \/ \E p \in Procs : Panic(p)

Spec == Init /\ [][Next]_vars

\* Both threads keep running: the tokio worker that polls the timer task and
\* the UI thread that runs the handler are scheduled by the OS.
FairSpec == Spec /\ WF_vars(Body("timer")) /\ WF_vars(Body("manual"))

\* ------------------------------------------------------------- claims
\* a caller is inside update_system_info (or about to enter it, guard in hand)
InUpdate(p) == pc[p] \in {"refresh", "cpu", "ram", "gpu"}

\* the timer task exists, no strong reference is left and main has dropped
\* its own: upgrade() can never succeed again
Gone ==
    /\ pc["timer"] # "unspawned"
    /\ strong = {}
    /\ mainpc \in {"shutdown", "exited"}

\* C1: at most one refresh-and-render operation (the body of
\* update_system_info) is in progress at a time, over both callers.
C1_MutualExclusion == Cardinality({p \in Procs : InUpdate(p)}) <= 1

\* C1 witness: the timer is inside update_system_info while the manual
\* handler waits for the mutex.
C1_Witness == InUpdate("timer") /\ pc["manual"] = "blocked"

C3_LoopGoesOn ==
    /\ [][ (Gone /\ pc["timer"] \in {"wait", "upgrade"})
             => (pc'["timer"] \in {"wait", "upgrade"}
                 \/ (pc'["timer"] = "cancelled" /\ mainpc' = "exited")) ]_vars
    /\ ((Gone /\ pc["timer"] = "upgrade") ~> (pc["timer"] = "wait"))

\* C3 witness: a tick (not the first) fires after the window is gone for good.
C3_Witness == Gone /\ pc["timer"] = "upgrade" /\ ticks >= 2

\* C4: a tick or trigger whose upgrade() fails does nothing: no lock
\* attempt, no refresh_all, provider state and display fields unchanged.
C4_UnresolvedIsNoOp ==
    [][ \A p \in Procs :
          (pc[p] = "upgrade" /\ strong = {} /\ pc'[p] # "upgrade")
            => (pc'[p] = Rest(p)
                /\ UNCHANGED <<poisoned, lock, system, snap, ui, src, refreshes, strong>>) ]_vars

\* C4 witness: a tick is about to resolve a window that no longer exists.
C4_Witness == pc["timer"] = "upgrade" /\ strong = {}

\* C5: when a caller has set the three display fields, cpu_usage and
\* ram_info both come from the readings of that caller's own refresh_all,
\* and gpu_info is the startup adapter summary.
C5_OneRefreshPerDelivery ==
    \A p \in Procs :
      pc[p] = "unlock" =>
        /\ src.cpu_usage = snap[p].gen
        /\ src.ram_info = snap[p].gen
        /\ ui.cpu_usage = FormatCpu(snap[p].cpus)
        /\ ui.ram_info = FormatRam(snap[p].mem)
        /\ ui.gpu_info = gpu_info

\* C5 witness: the timer completes a delivery (not the first refresh) while
\* the manual handler contends for the mutex.
C5_Witness == pc["timer"] = "unlock" /\ pc["manual"] = "blocked" /\ snap["timer"].gen >= 2

\* C6 as stated: a tick that fires leaves no missed deadline behind (missed
\* ticks are dropped, not executed later).
C6_NoCatchUp ==
    [][ (pc["timer"] = "wait" /\ pc'["timer"] = "upgrade") => nextDeadline' > now ]_vars

\* C6 as amended: every tick consumes exactly one deadline, in order, so
\* deadlines missed during a delay stay queued and fire later back to back;
\* the ticks fired never exceed the deadlines reached.
C6_Burst ==
    /\ [](ticks <= now + 1)
    /\ [][ (pc["timer"] = "wait" /\ pc'["timer"] = "upgrade")
             => (nextDeadline <= now /\ nextDeadline' = nextDeadline + 1
                 /\ ticks' = ticks + 1) ]_vars

\* C6 witness: a tick body (not the first) runs while a later deadline has
\* already been reached.
C6_Witness == pc["timer"] = "refresh" /\ ticks >= 2 /\ nextDeadline <= now

\* C7: the displayed CPU figure is sum/len of the per-core usages, and 0 for
\* an empty list.
C7_AverageOrZero ==
    \A p \in Procs :
      pc[p] = "ram" =>
        ui.cpu_usage =
          <<"CPU Usage: ">>
          \o Fixed2(IF Len(snap[p].cpus) = 0
                    THEN [nan |-> FALSE, num |-> 0, den |-> 1]
                    ELSE [nan |-> FALSE, num |-> SumUsage(snap[p].cpus),
                          den |-> Len(snap[p].cpus)])
          \o <<"%">>

\* C8: each figure of ram_info is its byte count floor-divided by 1,048,576,
\* field by field.
C8_FloorMiB ==
    \A p \in Procs :
      pc[p] = "gpu" =>
        ui.ram_info =
          << "Total RAM: ", ToString(snap[p].mem.total \div 1048576),
             " MB, Used: ", ToString(snap[p].mem.used \div 1048576),
             " MB, Free: ", ToString(snap[p].mem.free \div 1048576), " MB" >>

\* C8 witness: a ram_info set from counters that are no multiples of a MiB
\* and where used + free is not total.
C8_Witness ==
    \E p \in Procs :
      /\ pc[p] = "gpu"
      /\ snap[p].mem.used % 1048576 # 0
      /\ snap[p].mem.used + snap[p].mem.free # snap[p].mem.total

\* the first position whose device has not appeared earlier in the list
FirstNovel(list) ==
    CHOOSE i \in 1..Len(list) :
      /\ \A j \in 1..(i - 1) : list[j].device # list[i].device
      /\ \A k \in 1..(i - 1) : \E j \in 1..(k - 1) : list[j].device = list[k].device

\* C9: for a non-empty adapter list get_gpu_info reports exactly one
\* adapter, the first whose device has not appeared earlier.
C9_FirstNovelAdapter ==
    (mainpc = "spawn" /\ Len(adapters) > 0) =>
      LET d == adapters[FirstNovel(adapters)]
      IN  gpu_info =
            << "GPU: ", d.name, " (", d.backend, ")", "\n",
               "VRAM: ", ToString(d.max_binding \div 1048576), " MB", "\n",
               ClockLine >>

\* C9 witness: the scan of a list holding two distinct devices has returned.
C9_Witness ==
    /\ mainpc = "spawn"
    /\ Len(adapters) = 2
    /\ adapters[1].device # adapters[2].device

\* C10: for an empty adapter list get_gpu_info returns the fallback string
\* as an ordinary value, the value never changes afterwards, and it is
\* what every delivery puts into gpu_info.
C10_FallbackDelivered ==
    /\ [][ (mainpc = "reduce" /\ Len(adapters) = 0 /\ mainpc' # "reduce")
             => (gpu_info' = Fallback /\ mainpc' = "spawn" /\ result' = "none") ]_vars
    /\ [][ gpu_info # Unset => gpu_info' = gpu_info ]_vars
    /\ [](\A p \in Procs : pc[p] = "unlock" => ui.gpu_info = gpu_info)

\* C10 witness: a delivery has put the fallback string into gpu_info.
C10_Witness == \E p \in Procs : pc[p] = "unlock" /\ ui.gpu_info = Fallback


\* what one step of a caller at position `at` does, written once for both
\* callers: `me` only names who holds the window and the mutex
StepOf(me, at) ==
    CASE at = "upgrade" ->
           IF strong # {}
           THEN pc'[me] = "lock" /\ strong' = strong \cup {me}
                /\ UNCHANGED <<lock, system, ui, src, refreshes, poisoned>>
           ELSE pc'[me] = Rest(me)
                /\ UNCHANGED <<strong, lock, system, ui, src, refreshes, poisoned>>
      [] at = "lock" ->
           /\ IF lock # "free" THEN pc'[me] = "blocked" /\ lock' = lock
              ELSE IF poisoned THEN pc'[me] = "drop_ui" /\ lock' = lock
              ELSE pc'[me] = "refresh" /\ lock' = me
           /\ UNCHANGED <<strong, system, ui, src, refreshes, poisoned>>
      [] at = "blocked" ->
           /\ lock = "free"
           /\ IF poisoned THEN pc'[me] = "drop_ui" /\ lock' = lock
              ELSE pc'[me] = "refresh" /\ lock' = me
           /\ UNCHANGED <<strong, system, ui, src, refreshes, poisoned>>
      [] at = "refresh" ->
           /\ pc'[me] = "cpu"
           /\ refreshes' = refreshes + 1
           /\ system'.gen = refreshes'
           /\ [cpus |-> system'.cpus, mem |-> system'.mem] \in Readings
           /\ UNCHANGED <<strong, lock, ui, src, poisoned>>
      [] at = "cpu" ->
           /\ pc'[me] = "ram"
           /\ ui' = [ui EXCEPT !.cpu_usage = FormatCpu(system.cpus)]
           /\ UNCHANGED <<strong, lock, system, refreshes, poisoned>>
      [] at = "ram" ->
           /\ pc'[me] = "gpu"
           /\ ui' = [ui EXCEPT !.ram_info = FormatRam(system.mem)]
           /\ UNCHANGED <<strong, lock, system, refreshes, poisoned>>
      [] at = "gpu" ->
           /\ pc'[me] = "unlock"
           /\ ui' = [ui EXCEPT !.gpu_info = gpu_info]
           /\ UNCHANGED <<strong, lock, system, src, refreshes, poisoned>>
      [] at = "unlock" ->
           /\ pc'[me] = "drop_ui" /\ lock' = "free"
           /\ UNCHANGED <<strong, system, ui, src, refreshes, poisoned>>
      [] at = "drop_ui" ->
           /\ pc'[me] = Rest(me) /\ strong' = strong \ {me}
           /\ UNCHANGED <<lock, system, ui, src, refreshes, poisoned>>
      [] OTHER -> TRUE

C12_WindowFailureIsFatal ==
    /\ [][ (mainpc = "new_window" /\ mainpc' # "new_window" /\ strong' = {})
              => /\ mainpc' = "exited"
                 /\ result' = "err"
                 /\ UNCHANGED <<adapters, gpu_info, strong, lock, system, pc, snap,
                                ui, src, now, nextDeadline, ticks, triggers,
                                refreshes, poisoned>> ]_vars
    /\ [](  (mainpc # "new_window" /\ strong = {} /\ pc["timer"] = "unspawned")
              => /\ mainpc = "exited"
                 /\ result = "err"
                 /\ system = NoSystem
                 /\ adapters = <<>>
                 /\ gpu_info = Unset
                 /\ triggers = 0
                 /\ ticks = 0 )
    /\ [][ mainpc = "exited" => UNCHANGED vars ]_vars

\* C12 witness: main has ended with the error of the window construction.
C12_Witness ==
    /\ mainpc = "exited"
    /\ result = "err"
    /\ strong = {}
    /\ pc["timer"] = "unspawned"
    /\ gpu_info = Unset

\* the positions of a caller's body at which it owns an upgraded AppWindow
Resolved == {"lock", "blocked", "refresh", "cpu", "ram", "gpu", "unlock", "drop_ui"}

C14_NoLockWhileWaiting == pc["timer"] = "wait" => lock # "timer"

\* C14 witness: the timer task is back waiting after a tick in which it
\* held the mutex and refreshed.
C14_Witness ==
    /\ pc["timer"] = "wait"
    /\ snap["timer"].gen >= 1
    /\ lock = "free"

\* the callers whose current tick or trigger has not yet called refresh_all
Pending == { p \in Procs : pc[p] \in {"upgrade", "lock", "blocked", "refresh"} }

\* C15: every refresh_all call is paid for by a tick or trigger of its own:
\* the refreshes done, plus the callers still on their way to one, never
\* exceed the ticks plus the manual triggers; and a caller that is done
\* leaves its rest position only by the next tick or trigger.
C15_AtMostOneAttempt ==
    /\ [](refreshes + Cardinality(Pending) <= ticks + triggers)
    /\ [][ \A p \in Procs :
              (pc[p] = Rest(p) /\ pc'[p] \notin {Rest(p), "cancelled"})
                => (pc'[p] = "upgrade" /\ ticks' + triggers' = ticks + triggers + 1) ]_vars

\* C15 witness: every caller is at rest, some attempt refreshed and some
\* attempt was skipped and not made up for.
C15_Witness ==
    /\ pc["timer"] = "wait"
    /\ pc["manual"] = "idle"
    /\ refreshes >= 1
    /\ refreshes < ticks + triggers

\* C16: the adapter summary is set by one step only, the end of
\* get_gpu_info in main, taken before the timer task exists and before the
\* handler is registered; once set it never changes; the timer task and the
\* handler exist only with the summary set; and the gpu_info field of the
\* window is always its initial text or that summary.
C16_SummaryComputedOnce ==
    /\ [][ gpu_info' # gpu_info
              => /\ gpu_info = Unset
                 /\ mainpc = "reduce"
                 /\ pc["timer"] = "unspawned"
                 /\ triggers = 0
                 /\ gpu_info' = GetGpuInfo(adapters) ]_vars
    /\ []( (pc["timer"] # "unspawned" \/ mainpc = "run") => gpu_info # Unset )
    /\ []( ui.gpu_info \in {InitText, gpu_info} )

\* C16 witness: both the timer task and the handler have pushed, and the
\* window shows the summary of the adapters found at startup.
C16_Witness ==
    /\ snap["timer"].gen >= 1
    /\ snap["manual"].gen >= 1
    /\ pc["timer"] = "wait"
    /\ pc["manual"] = "idle"
    /\ ui.gpu_info = gpu_info
    /\ gpu_info # Fallback

\* C17: a caller whose lock() meets a poisoned mutex goes straight to the
\* end of its body, without the guard, without a refresh_all, without
\* touching the window's fields and without a failure of its own or of
\* main, and from there back to where it awaits the next tick or trigger;
\* once the mutex is poisoned no refresh or push happens any more.
C17_PoisonedLockSkips ==
    /\ [][ \A p \in Procs :
              (pc[p] \in {"lock", "blocked"} /\ poisoned /\ pc'[p] # pc[p])
                => /\ pc'[p] = "drop_ui"
                   /\ UNCHANGED <<lock, system, snap, ui, src, refreshes, mainpc,
                                  result, poisoned>> ]_vars
    /\ [][ \A p \in Procs :
              (pc[p] = "drop_ui" /\ poisoned /\ pc'[p] # pc[p]) => pc'[p] = Rest(p) ]_vars
    /\ [][ poisoned => UNCHANGED <<system, ui, src, refreshes>> ]_vars
    /\ [](poisoned => lock = "free")

\* C17 witness: the timer task panicked in an update; the handler, which
\* never got to refresh, is at the end of its body after lock() failed.
C17_Witness ==
    /\ poisoned
    /\ pc["timer"] = "panicked"
    /\ pc["manual"] = "drop_ui"
    /\ snap["manual"] = NoSystem
    /\ mainpc = "run"

\* C17, the other caller: the handler panicked in an update and the timer
\* task, which never got to refresh, skipped on the poisoned mutex.
C17_TimerSkipped ==
    /\ poisoned
    /\ pc["manual"] = "panicked"
    /\ pc["timer"] = "drop_ui"
    /\ snap["timer"] = NoSystem

C18_TickFirst == pc["timer"] = "unlock" /\ pc["manual"] = "blocked" /\ lock = "timer"

\* C18, the other order: the handler's refresh and push are complete while
\* the timer task is still parked on the mutex.
C18_ManualFirst == pc["manual"] = "unlock" /\ pc["timer"] = "blocked" /\ lock = "manual"

\* the positions at which a caller holds the guard
Holding == {"refresh", "cpu", "ram", "gpu", "unlock"}

\* C19: the holder of the mutex is always inside its update or at the
\* release, never parked, and its release never has to wait for the other
\* caller; the two callers are never both parked; and every trigger that
\* starts gets to the end of its push and back to the event loop, unless
\* the mutex got poisoned.
C19_NoDeadlock ==
    /\ [](\A p \in Procs : (lock = p) <=> (pc[p] \in Holding))
    /\ [](\A p \in Procs : pc[p] = "unlock" => ENABLED Unlock(p))
    /\ [](\E p \in Procs : pc[p] # "blocked")
    /\ (pc["manual"] = "upgrade") ~> (pc["manual"] = "unlock" \/ poisoned)
    /\ (pc["manual"] \in Resolved) ~> (pc["manual"] = "idle" \/ poisoned)

\* C19 witness: the handler is parked on the mutex the timer task holds.
C19_Witness ==
    /\ pc["manual"] = "blocked"
    /\ lock = "timer"
    /\ pc["timer"] \in Holding
    /\ ~poisoned
====
